---- MODULE Spec2Model ----
(***************************************************************************)
(* Model of the hand-written lexer in src/src/lexer/mod.rs: StringReader   *)
(* (src, cursor, pos) and its single operation next_token, with one action *)
(* per iteration of each loop of the scanner.                              *)
(*                                                                         *)
(* A character is a one-element string: printable ASCII characters stand   *)
(* for themselves, every other character is written "uXXXX" after its code *)
(* point.  A source text is a sequence of characters.                      *)
(***************************************************************************)
EXTENDS Integers, Sequences, FiniteSets, TLC

(***************************************************************************)
(* Bounds of the model.                                                    *)
(***************************************************************************)
\* every source over Alphabet of at most MaxLen characters is scanned
MaxLen == 3
\* number of calls of next_token that may return EOF
MaxEofCalls == 2
\* every source over Alphabet of at most MaxLenTwo characters is scanned by
\* two readers at once
MaxLenTwo == 2

(***************************************************************************)
(* Characters.                                                             *)
(***************************************************************************)
LowerLetters ==
    {"a", "b", "c", "d", "e", "f", "g", "h", "i", "j", "k", "l", "m",
     "n", "o", "p", "q", "r", "s", "t", "u", "v", "w", "x", "y", "z"}

UpperLetters ==
    {"A", "B", "C", "D", "E", "F", "G", "H", "I", "J", "K", "L", "M",
     "N", "O", "P", "Q", "R", "S", "T", "U", "V", "W", "X", "Y", "Z"}

\* 'a'..='z' | 'A'..='Z'
Letters == LowerLetters \cup UpperLetters

\* '0'..='9'
Digits == {"0", "1", "2", "3", "4", "5", "6", "7", "8", "9"}

\* the characters is_whitespace matches
WhitespaceChars ==
    {"u0009", "u000A", "u000B", "u000C", "u000D", " ",
     "u0085", "u200E", "u200F", "u2028", "u2029"}

\* is_whitespace as it would be with the ASCII arms only
is_whitespace_ascii_only(c) ==
    c \in {"u0009", "u000A", "u000B", "u000C", "u000D", " "}

is_whitespace(c) == c \in WhitespaceChars

\* the value peek_first / peek_second return past the end of the input
EOF_CHAR == "u0000"

\* characters whose UTF-8 encoding in a Rust str takes two or three bytes
TwoByteChars == {"u0085", "u00E9"}
ThreeByteChars == {"u200E", "u200F", "u2028", "u2029"}

\* number of bytes a character occupies in the source buffer (a Rust &str)
Width(c) ==
    IF c \in ThreeByteChars THEN 3
    ELSE IF c \in TwoByteChars THEN 2
    ELSE 1

(***************************************************************************)
(* The source buffer as a byte-indexed Rust str.                           *)
(***************************************************************************)
RECURSIVE ByteLen(_)
\* s.len(): the length of the text in bytes
ByteLen(s) == IF s = <<>> THEN 0 ELSE Width(Head(s)) + ByteLen(Tail(s))

\* byte offset at which the i-th character (1-based) starts; i = Len(s) + 1
\* gives the byte length
ByteOffset(s, i) == ByteLen(SubSeq(s, 1, i - 1))

\* s.is_char_boundary(b)
is_char_boundary(s, b) == \E i \in 1..(Len(s) + 1) : ByteOffset(s, i) = b

\* &s[b..e] does not panic
SliceOk(s, b, e) == b <= e /\ is_char_boundary(s, b) /\ is_char_boundary(s, e)

\* &s[b..e], for SliceOk(s, b, e): the characters whose bytes lie in [b, e)
StrSlice(s, b, e) ==
    LET i == CHOOSE k \in 1..(Len(s) + 1) : ByteOffset(s, k) = b
        j == CHOOSE k \in 1..(Len(s) + 1) : ByteOffset(s, k) = e
    IN  SubSeq(s, i, j - 1)

(***************************************************************************)
(* Cursor: the remaining characters, the number of characters consumed     *)
(* since the last reset and the character consumed last.                   *)
(***************************************************************************)
Cursor_new(s) == [chars |-> s, len_advanced |-> 0, prev |-> EOF_CHAR]

is_eof(c) == c.chars = <<>>

\* bump(): consume one character; a cursor at the end is left as it is
bump(c) ==
    IF c.chars = <<>> THEN c
    ELSE [chars |-> Tail(c.chars),
          len_advanced |-> c.len_advanced + 1,
          prev |-> Head(c.chars)]

peek_first(c) == IF Len(c.chars) >= 1 THEN c.chars[1] ELSE EOF_CHAR

peek_second(c) == IF Len(c.chars) >= 2 THEN c.chars[2] ELSE EOF_CHAR

reset_len(c) == [c EXCEPT !.len_advanced = 0]

(***************************************************************************)
(* Tokens.                                                                 *)
(***************************************************************************)
Token(kind, lo, hi) == [kind |-> kind, lo |-> lo, hi |-> hi]

\* the EOF token with its span started at the beginning of the input
EofToken_from_zero(p) == Token("EOF", 0, p)

\* the token returned when the input is exhausted
EofToken(p) == Token("EOF", p, p)

\* the single-character arms with each brace given the kind named after it
SingleCharKind_natural_braces(ch) ==
    CASE ch = "," -> "COMMA"
      [] ch = ";" -> "SEMICOLON"
      [] ch = "(" -> "LPAREN"
      [] ch = ")" -> "RPAREN"
      [] ch = "[" -> "LBRACK"
      [] ch = "]" -> "RBRACK"
      [] ch = "{" -> "LCURLY"
      [] ch = "}" -> "RCURLY"
      [] ch = "." -> "DOT"
      [] ch = "+" -> "PLUS"
      [] ch = "-" -> "MINUS"
      [] ch = "*" -> "TIMES"
      [] ch = "%" -> "PERCENT"
      [] ch = "=" -> "EQ"
      [] ch = "&" -> "AND"
      [] ch = "|" -> "OR"
      [] OTHER -> "UNKNOWN"

\* the single-character arms of the match in next_token
SingleCharKind(ch) ==
    CASE ch = "," -> "COMMA"
      [] ch = ";" -> "SEMICOLON"
      [] ch = "(" -> "LPAREN"
      [] ch = ")" -> "RPAREN"
      [] ch = "[" -> "LBRACK"
      [] ch = "]" -> "RBRACK"
      [] ch = "{" -> "RCURLY"
      [] ch = "}" -> "LCURLY"
      [] ch = "." -> "DOT"
      [] ch = "+" -> "PLUS"
      [] ch = "-" -> "MINUS"
      [] ch = "*" -> "TIMES"
      [] ch = "%" -> "PERCENT"
      [] ch = "=" -> "EQ"
      [] ch = "&" -> "AND"
      [] ch = "|" -> "OR"
      [] OTHER -> "UNKNOWN"

SingleChars ==
    {",", ";", "(", ")", "[", "]", "{", "}", ".",
     "+", "-", "*", "%", "=", "&", "|"}

\* colon, less_than, greater_than: the kind and the cursor after the
\* one character of lookahead has been consumed or left
colon(c) ==
    IF peek_first(c) = "="
    THEN [kind |-> "ASSIGN", cursor |-> bump(c)]
    ELSE [kind |-> "COLON", cursor |-> c]

\* less_than with the kinds of its two lookahead arms exchanged
less_than_swapped(c) ==
    CASE peek_first(c) = ">" -> [kind |-> "LE", cursor |-> bump(c)]
      [] peek_first(c) = "=" -> [kind |-> "NEQ", cursor |-> bump(c)]
      [] OTHER -> [kind |-> "LT", cursor |-> c]

less_than(c) ==
    CASE peek_first(c) = ">" -> [kind |-> "NEQ", cursor |-> bump(c)]
      [] peek_first(c) = "=" -> [kind |-> "LE", cursor |-> bump(c)]
      [] OTHER -> [kind |-> "LT", cursor |-> c]

greater_than(c) ==
    IF peek_first(c) = "="
    THEN [kind |-> "GE", cursor |-> bump(c)]
    ELSE [kind |-> "GT", cursor |-> c]

\* the keyword match taken on a prefix of the sliced text (starts_with "if")
keyword_kind_prefix(token) ==
    IF Len(token) >= 2 /\ SubSeq(token, 1, 2) = <<"i", "f">> THEN "IF"
    ELSE IF Len(token) >= 3 /\ SubSeq(token, 1, 3) = <<"n", "i", "l">>
    THEN "NIL"
    ELSE "ID"

\* the keyword match with the arm for "nil" left out
keyword_kind_without_nil(token) ==
    CASE token = <<"a", "r", "r", "a", "y">> -> "ARRAY"
      [] token = <<"i", "f">> -> "IF"
      [] token = <<"t", "h", "e", "n">> -> "THEN"
      [] token = <<"e", "l", "s", "e">> -> "ELSE"
      [] token = <<"w", "h", "i", "l", "e">> -> "WHILE"
      [] token = <<"f", "o", "r">> -> "FOR"
      [] token = <<"t", "o">> -> "TO"
      [] token = <<"d", "o">> -> "DO"
      [] token = <<"l", "e", "t">> -> "LET"
      [] token = <<"i", "n">> -> "IN"
      [] token = <<"e", "n", "d">> -> "END"
      [] token = <<"o", "f">> -> "OF"
      [] token = <<"b", "r", "e", "a", "k">> -> "BREAK"
      [] token = <<"f", "u", "n", "c", "t", "i", "o", "n">> -> "FUNCTION"
      [] token = <<"v", "a", "r">> -> "VAR"
      [] token = <<"t", "y", "p", "e">> -> "TYPE"
      [] OTHER -> "ID"

\* the match of cook_identifier on the sliced text
keyword_kind(token) ==
    CASE token = <<"a", "r", "r", "a", "y">> -> "ARRAY"
      [] token = <<"i", "f">> -> "IF"
      [] token = <<"t", "h", "e", "n">> -> "THEN"
      [] token = <<"e", "l", "s", "e">> -> "ELSE"
      [] token = <<"w", "h", "i", "l", "e">> -> "WHILE"
      [] token = <<"f", "o", "r">> -> "FOR"
      [] token = <<"t", "o">> -> "TO"
      [] token = <<"d", "o">> -> "DO"
      [] token = <<"l", "e", "t">> -> "LET"
      [] token = <<"i", "n">> -> "IN"
      [] token = <<"e", "n", "d">> -> "END"
      [] token = <<"o", "f">> -> "OF"
      [] token = <<"b", "r", "e", "a", "k">> -> "BREAK"
      [] token = <<"f", "u", "n", "c", "t", "i", "o", "n">> -> "FUNCTION"
      [] token = <<"v", "a", "r">> -> "VAR"
      [] token = <<"t", "y", "p", "e">> -> "TYPE"
      [] token = <<"n", "i", "l">> -> "NIL"
      [] OTHER -> "ID"

(***************************************************************************)
(* The source texts the lexer is run on: every text of at most MaxLen      *)
(* characters over Alphabet, and a list of longer texts.                   *)
(***************************************************************************)
Alphabet ==
    {" ", "u0085", "u00E9", "i", "f", "1", ".", ":", "=", "<", ">",
     "/", "*", "\"", "\\"}

Samples ==
    {
    <<" ", "a", " ", " ", "b", " ">>,
    <<"a", "r", "r", "a", "y">>,
    <<"i", "f">>,
    <<"t", "h", "e", "n">>,
    <<"e", "l", "s", "e">>,
    <<"w", "h", "i", "l", "e">>,
    <<"f", "o", "r">>,
    <<"t", "o">>,
    <<"d", "o">>,
    <<"l", "e", "t">>,
    <<"i", "n">>,
    <<"e", "n", "d">>,
    <<"o", "f">>,
    <<"b", "r", "e", "a", "k">>,
    <<"f", "u", "n", "c", "t", "i", "o", "n">>,
    <<"v", "a", "r">>,
    <<"t", "y", "p", "e">>,
    <<"n", "i", "l">>,
    <<"A", "r", "r", "a", "y">>,
    <<"I", "f">>,
    <<"T", "h", "e", "n">>,
    <<"E", "l", "s", "e">>,
    <<"W", "h", "i", "l", "e">>,
    <<"F", "o", "r">>,
    <<"T", "o">>,
    <<"D", "o">>,
    <<"L", "e", "t">>,
    <<"I", "n">>,
    <<"E", "n", "d">>,
    <<"O", "f">>,
    <<"B", "r", "e", "a", "k">>,
    <<"F", "u", "n", "c", "t", "i", "o", "n">>,
    <<"V", "a", "r">>,
    <<"T", "y", "p", "e">>,
    <<"N", "i", "l">>,
    <<"I", "F">>,
    <<"i", "F">>,
    <<"N", "I", "L">>,
    <<"i", "f", "x">>,
    <<"i", "f", "1">>,
    <<"l", "e", "t", "s">>,
    <<"n", "i", "l", "0">>,
    <<"a", "r", "r", "a", "y", "s">>,
    <<"f", "u", "n", "c", "t", "i", "o", "n", "s">>,
    <<"x">>,
    <<"a", "1", "b", "2">>,
    <<"i", "n", "1">>,
    <<"3", ".", "1", "4", ".", "1", "5">>,
    <<"1", "2", "a", "b", "c">>,
    <<"1", "2", "i", "f">>,
    <<"-", "5">>,
    <<"1", ".">>,
    <<"1", ".", ".", "2">>,
    <<"0", ".", "5", "x">>,
    <<"7", " ", "8">>,
    <<"/", "*", " ", "a", " ", "/", "*", " ", "b", " ", "*", "/", " ", "c", " ", "*", "/", " ", "5">>,
    <<"/", "*", "/", "*", " ", "a", " ", "*", "/", " ", "b", " ", "*", "/">>,
    <<"/", "*", "/">>,
    <<"/", "*", "*", "/">>,
    <<"/", "*", " ", "a">>,
    <<"/", "*", "/", "1">>,
    <<"/", "*", "/", "*", "*", "/", "*", "/">>,
    <<"a", "/", "b">>,
    <<"/", "*", " ", "/", "*", " ", "*", "/">>,
    <<"\"", "a", "b", "\\", "\"", "c", "d", "\"">>,
    <<"\"", "a", "b", "c">>,
    <<"\"", "a", "\\">>,
    <<"\"", "a", "\\", "\"">>,
    <<"\"", "a", "\\", "n", "\"">>,
    <<"\"", "\\", "\\", "\"">>,
    <<"\"", "\\", "\\", "\\", "\"">>,
    <<"\"", "a", "\\", "\"", "b", "\"", "c">>,
    <<"\"", "\"", " ", "x">>,
    <<"l", "e", "t", " ", "x", " ", ":", "=", " ", "1", "0">>,
    <<"a", ":", "=", "b">>,
    <<"a", "<", ">", "b">>,
    <<"x", "<", "=", "1">>,
    <<"x", ">", "=", "1">>,
    <<"a", " ", ":", " ", "b">>,
    <<"<">>,
    <<">">>,
    <<":">>,
    <<",", ";", "(", ")", "[", "]", "{", "}", ".", "+", "-", "*", "%", "=", "&", "|">>,
    <<"{">>,
    <<"}">>,
    <<"_">>,
    <<"!">>,
    <<"#">>,
    <<"u0000">>,
    <<"a", "_", "b">>,
    <<"u0000", "x">>,
    <<"u00E9", " ", "i", "f">>,
    <<"u00E9", "u00E9", "i", "f">>,
    <<"u200E", "i", "f">>,
    <<"u0085", "l", "e", "t">>,
    <<"u2028", "x">>,
    <<"u00E9", "u00E9", " ", "i", "f">>,
    <<"u0009", "u000A", "u000B", "u000C", "u000D", " ", "u0085", "u200E", "u200F", "u2028", "u2029", "x">>,
    <<"x", "u00E9">>,
    <<"u200F", "u2029", " ", "1">>,
    <<"u00E9", "1", "a">>,
    <<"a", "u00E9", "b">>,
    <<"u200E", "u200E", "u200E", "n", "i", "l">>,
    <<"u00E9", "u00E9", "u00E9", "u00E9", "t", "y", "p", "e">>,
    <<"u00E9", "u00E9", "u00E9", "\"", "i", "f", "\"", "a", "b">>
    }


Sources == UNION {[1..n -> Alphabet] : n \in 0..MaxLen} \cup Samples

\* the source texts two readers are run on together
SourcesTwo == UNION {[1..n -> Alphabet] : n \in 0..MaxLenTwo} \cup Samples

(***************************************************************************)
(* State.                                                                  *)
(***************************************************************************)
VARIABLES
    src,            \* StringReader.src: the source text
    cursor,         \* StringReader.cursor
    pos,            \* StringReader.pos: the absolute position
    pc,             \* where the reader is: "idle" between two calls,
                    \* "next_token" at the head of the loop of next_token,
                    \* the name of the sub-scanner whose loop is running,
                    \* or "panicked" once a call has aborted
    start,          \* next_token: let start
    decimal_found,  \* cook_number: let mut decimal_found
    comment_level,  \* cook_comment: let mut comment_level
    tokens,         \* the tokens returned by the calls so far, in order
    other           \* a second StringReader constructed over the same
                    \* source: a record of its src, cursor, pos, pc, start,
                    \* decimal_found, comment_level and tokens

vars ==
    <<src, cursor, pos, pc, start, decimal_found, comment_level, tokens,
      other>>

\* the state of the reader as one record
Self ==
    [src |-> src, cursor |-> cursor, pos |-> pos, pc |-> pc,
     start |-> start, decimal_found |-> decimal_found,
     comment_level |-> comment_level, tokens |-> tokens]

\* the reader takes the state r; the other reader is not touched
Becomes(r) ==
    /\ UNCHANGED other
    /\ src' = r.src
    /\ cursor' = r.cursor
    /\ pos' = r.pos
    /\ pc' = r.pc
    /\ start' = r.start
    /\ decimal_found' = r.decimal_found
    /\ comment_level' = r.comment_level
    /\ tokens' = r.tokens

\* StringReader::new as a record
NewReader(s) ==
    [src |-> s, cursor |-> Cursor_new(s), pos |-> 0, pc |-> "idle",
     start |-> 0, decimal_found |-> FALSE, comment_level |-> 0,
     tokens |-> <<>>]

\* the number of EOF tokens in the token sequence toks
\* StringReader::new, called twice on a source text of the set srcs
InitOver(srcs) ==
    /\ src \in srcs
    /\ cursor = Cursor_new(src)
    /\ pos = 0
    /\ pc = "idle"
    /\ start = 0
    /\ decimal_found = FALSE
    /\ comment_level = 0
    /\ tokens = <<>>
    /\ other = NewReader(src)

Init == InitOver(Sources)

InitTwo == InitOver(SourcesTwo)

EofCountOf(toks) == Cardinality({i \in DOMAIN toks : toks[i].kind = "EOF"})

EofCount == EofCountOf(tokens)

\* the position assigned instead of advanced: self.pos = token_len
Advance_assigns(p, token_len) == token_len

\* self.pos += token_len
Advance(p, token_len) == p + token_len

\* the end of the loop body without the test for the WHITESPACE marker:
\* the marker is returned as a token
Finish_no_continue(r, kind, c, st) ==
    LET newpos == Advance(r.pos, c.len_advanced)
    IN  [r EXCEPT !.cursor = reset_len(c),
                  !.pos = newpos,
                  !.pc = "idle",
                  !.tokens = Append(@, Token(kind, st, newpos))]

\* the end of the loop body without the call of reset_len
Finish_no_reset(r, kind, c, st) ==
    LET newpos == Advance(r.pos, c.len_advanced)
    IN  [r EXCEPT !.cursor = c,
                  !.pos = newpos,
                  !.pc = IF kind = "WHITESPACE" THEN "next_token" ELSE "idle",
                  !.tokens = IF kind = "WHITESPACE" THEN @
                             ELSE Append(@, Token(kind, st, newpos))]

\* the end of one iteration of the loop of next_token: the length consumed
\* is read and reset, the position advanced, and the token returned unless
\* it is the WHITESPACE marker
Finish(r, kind, c, st) ==
    LET token_len == c.len_advanced
        newpos == Advance(r.pos, token_len)
    IN  [r EXCEPT !.cursor = reset_len(c),
                  !.pos = newpos,
                  !.pc = IF kind = "WHITESPACE" THEN "next_token" ELSE "idle",
                  !.tokens = IF kind = "WHITESPACE" THEN @
                             ELSE Append(@, Token(kind, st, newpos))]

\* the sub-scanner named by nextpc goes on with cursor c
Continue(r, c, nextpc) == [r EXCEPT !.cursor = c, !.pc = nextpc]

\* a failed assertion or an out-of-range slice aborts the call
Panic(r) == [r EXCEPT !.pc = "panicked"]

\* the debug_assert! at the entry of the sub-scanner the character ch
\* dispatches to, evaluated on the cursor c that has consumed ch
DebugAssertHolds(c, ch) ==
    CASE is_whitespace(ch) -> is_whitespace(c.prev)
      [] ch \in {":", "<", ">", "\"", "/"} -> c.prev = ch
      [] ch \in Digits -> c.prev \in Digits
      [] OTHER -> TRUE

(***************************************************************************)
(* The steps of the reader, each a function of its state r.                *)
(***************************************************************************)
\* the client calls next_token
call(r) == [r EXCEPT !.pc = "next_token"]

\* one pass through the head of the loop of next_token: bump, dispatch on
\* the character, and either finish the token or enter a sub-scanner loop
next_token(r) ==
    IF is_eof(r.cursor)
    THEN [r EXCEPT !.start = r.pos,
                   !.tokens = Append(@, EofToken(r.pos)),
                   !.pc = "idle"]
    ELSE LET c1 == bump(r.cursor)
             ch == c1.prev
             r1 == [r EXCEPT
                      !.start = r.pos,
                      !.decimal_found = IF ch \in Digits THEN FALSE ELSE @,
                      !.comment_level =
                          IF ch = "/" /\ peek_first(c1) = "*" THEN 1 ELSE @]
         IN  IF ~DebugAssertHolds(c1, ch) THEN Panic(r1)
             ELSE
             CASE is_whitespace(ch) -> Continue(r1, c1, "whitespace")
               [] ch \in SingleChars ->
                      Finish(r1, SingleCharKind(ch), c1, r.pos)
               [] ch = ":" ->
                      Finish(r1, colon(c1).kind, colon(c1).cursor, r.pos)
               [] ch = "<" ->
                      Finish(r1, less_than(c1).kind, less_than(c1).cursor,
                             r.pos)
               [] ch = ">" ->
                      Finish(r1, greater_than(c1).kind,
                             greater_than(c1).cursor, r.pos)
               [] ch \in Digits -> Continue(r1, c1, "cook_number")
               [] ch = "\"" -> Continue(r1, c1, "cook_string")
               [] ch = "/" ->
                      IF peek_first(c1) = "*"
                      THEN Continue(r1, c1, "cook_comment")
                      ELSE Finish(r1, "DIVIDE", c1, r.pos)
               [] ch \in Letters -> Continue(r1, c1, "cook_identifier")
               [] OTHER -> Finish(r1, "UNKNOWN", c1, r.pos)

\* whitespace: one iteration of bump_while(is_whitespace)
whitespace(r) ==
    IF ~is_eof(r.cursor) /\ is_whitespace(peek_first(r.cursor))
    THEN Continue(r, bump(r.cursor), "whitespace")
    ELSE Finish(r, "WHITESPACE", r.cursor, r.start)

\* the match of cook_number without the decimal_found test: every '.' is
\* consumed
number_continues_any_dot(p, found) == p \in Digits \/ p = "."

\* the match of cook_number on the lookahead p: TRUE when the loop consumes
\* p and goes on, FALSE when it breaks
number_continues(p, found) == p \in Digits \/ (p = "." /\ ~found)

\* cook_number: one iteration of its loop
cook_number(r) ==
    IF number_continues(peek_first(r.cursor), r.decimal_found)
    THEN [Continue(r, bump(r.cursor), "cook_number") EXCEPT
             !.decimal_found = (@ \/ peek_first(r.cursor) = ".")]
    ELSE Finish(r, IF r.decimal_found THEN "FLOAT" ELSE "INT", r.cursor,
                r.start)

\* the guard of the escape arm of cook_string without the test of the
\* lookahead: no character is skipped after a backslash
is_escape_pair_never(c, nxt) == FALSE

\* the guard of the escape arm of cook_string: c is a backslash and the
\* lookahead nxt a backslash or a quote
is_escape_pair(c, nxt) == c = "\\" /\ (nxt = "\\" \/ nxt = "\"")

\* the kind of a string whose closing quote is found even at the end of input
StringEofKind_string == "STRING"

\* the kind cook_string returns when the input ends inside the string
StringEofKind == "UNKNOWN"

\* cook_string: one iteration of its loop
cook_string(r) ==
    IF is_eof(r.cursor)
    THEN Finish(r, StringEofKind, r.cursor, r.start)
    ELSE LET c1 == bump(r.cursor)
             c == c1.prev
         IN  CASE c = "\"" -> Finish(r, "STRING", c1, r.start)
               [] is_escape_pair(c, peek_first(c1)) ->
                      Continue(r, bump(c1), "cook_string")
               [] OTHER -> Continue(r, c1, "cook_string")

\* cook_identifier: one iteration of its loop; on leaving the loop the
\* text is sliced out of src with start and the length consumed as byte
\* indexes, and matched against the keywords
cook_identifier(r) ==
    IF peek_first(r.cursor) \in Letters \cup Digits
    THEN Continue(r, bump(r.cursor), "cook_identifier")
    ELSE LET end == r.start + r.cursor.len_advanced
         IN  IF SliceOk(r.src, r.start, end)
             THEN Finish(r, keyword_kind(StrSlice(r.src, r.start, end)),
                         r.cursor, r.start)
             ELSE Panic(r)

\* the two characters at which cook_comment closes one level
IsCommentClose(p1, p2) == p1 = "*" /\ p2 = "/"

\* the two characters at which cook_comment opens one more level
IsCommentOpen(p1, p2) == p1 = "/" /\ p2 = "*"

\* the kind of a comment that tells an unterminated comment apart
CommentKind_checked(level) == IF level = 0 THEN "COMMENT" ELSE "UNKNOWN"

\* the kind cook_comment returns after its loop, whatever the level left
CommentKind(level) == "COMMENT"

\* cook_comment: one iteration of its loop
cook_comment(r) ==
    LET p1 == peek_first(r.cursor)
        p2 == peek_second(r.cursor)
        level == r.comment_level
    IN  CASE IsCommentClose(p1, p2) ->
                 LET r1 == [r EXCEPT !.comment_level = level - 1]
                 IN  IF level - 1 = 0
                     THEN Finish(r1, CommentKind(level - 1),
                                 bump(bump(r.cursor)), r.start)
                     ELSE Continue(r1, bump(bump(r.cursor)), "cook_comment")
          [] IsCommentOpen(p1, p2) ->
                 Continue([r EXCEPT !.comment_level = level + 1],
                          bump(bump(r.cursor)), "cook_comment")
          [] OTHER ->
                 IF r.cursor.chars # <<>>
                 THEN Continue(r, bump(r.cursor), "cook_comment")
                 ELSE IF is_eof(r.cursor)
                      THEN Finish(r, CommentKind(level), r.cursor, r.start)
                      ELSE r

\* the reader can take a step: it has not aborted, and the client calls
\* next_token only while fewer than MaxEofCalls calls have returned EOF
CanStep(r) ==
    /\ r.pc # "panicked"
    /\ r.pc = "idle" => EofCountOf(r.tokens) < MaxEofCalls

\* the step the reader takes from the state r
StepOf(r) ==
    CASE r.pc = "idle" -> call(r)
      [] r.pc = "next_token" -> next_token(r)
      [] r.pc = "whitespace" -> whitespace(r)
      [] r.pc = "cook_number" -> cook_number(r)
      [] r.pc = "cook_string" -> cook_string(r)
      [] r.pc = "cook_identifier" -> cook_identifier(r)
      [] r.pc = "cook_comment" -> cook_comment(r)

(***************************************************************************)
(* Operations.                                                             *)
(***************************************************************************)
Call ==
    /\ pc = "idle"
    /\ CanStep(Self)
    /\ Becomes(call(Self))

LoopHead ==
    /\ pc = "next_token"
    /\ Becomes(next_token(Self))

Whitespace ==
    /\ pc = "whitespace"
    /\ Becomes(whitespace(Self))

CookNumber ==
    /\ pc = "cook_number"
    /\ Becomes(cook_number(Self))

CookString ==
    /\ pc = "cook_string"
    /\ Becomes(cook_string(Self))

CookIdentifier ==
    /\ pc = "cook_identifier"
    /\ Becomes(cook_identifier(Self))

CookComment ==
    /\ pc = "cook_comment"
    /\ Becomes(cook_comment(Self))

\* a step of the second reader that keeps its position in the pos of the
\* first one, as with one position counter shared by all readers
OtherStep_shared_pos ==
    /\ CanStep(other)
    /\ other' = StepOf(other)
    /\ pos' = other'.pos
    /\ UNCHANGED <<src, cursor, pc, start, decimal_found, comment_level,
                   tokens>>

\* a step of the second reader: a call of next_token on it, or one more
\* step of the call in progress
OtherStep ==
    /\ CanStep(other)
    /\ other' = StepOf(other)
    /\ UNCHANGED <<src, cursor, pos, pc, start, decimal_found,
                   comment_level, tokens>>

Next ==
    \/ Call
    \/ LoopHead
    \/ Whitespace
    \/ CookNumber
    \/ CookString
    \/ CookIdentifier
    \/ CookComment

Spec == Init /\ [][Next]_vars

\* the caller keeps calling and a call in progress keeps running
FairSpec == Spec /\ WF_vars(Next)

\* two readers over one source, their steps interleaved in any order
NextTwo ==
    \/ Next
    \/ OtherStep

TwoSpec == InitTwo /\ [][NextTwo]_vars

TypeOK ==
    /\ src \in Seq(STRING)
    /\ pos \in 0..Len(src)
    /\ pc \in {"idle", "next_token", "whitespace", "cook_number",
               "cook_string", "cook_identifier", "cook_comment", "panicked"}
    /\ start \in 0..Len(src)
    /\ decimal_found \in BOOLEAN
    /\ comment_level \in 0..Len(src)

(***************************************************************************)
(* Properties.                                                             *)
(***************************************************************************)
\* the source length in the unit of pos (characters consumed)
N == Len(src)

\* the character at position p of the source (0-based), for p < N
CharAt(p) == src[p + 1]

\* position p holds a whitespace character
IsWs(p) == CharAt(p) \in WhitespaceChars

EofReturned == EofCount >= 1

\* C1 (coverage/partition): the spans of the tokens returned so far, with
\* the whitespace between them, tile the source: only whitespace precedes
\* the first token, only whitespace lies between the hi of a token and the
\* lo of the next, no two spans overlap, no span leaves [0, N), and an EOF
\* token has the span (N, N).
C1_Partition ==
    /\ \A i \in DOMAIN tokens :
          /\ 0 <= tokens[i].lo
          /\ tokens[i].lo <= tokens[i].hi
          /\ tokens[i].hi <= N
          /\ tokens[i].kind = "EOF" => tokens[i].lo = N /\ tokens[i].hi = N
    /\ tokens # <<>> => \A p \in 0..(tokens[1].lo - 1) : IsWs(p)
    /\ \A i \in 1..(Len(tokens) - 1) :
          /\ tokens[i].hi <= tokens[i + 1].lo
          /\ \A p \in tokens[i].hi..(tokens[i + 1].lo - 1) : IsWs(p)

\* C1 witness: EOF has been returned after at least two tokens, with
\* whitespace skipped before the first token and between two tokens
C1_Witness ==
    /\ EofReturned
    /\ Len(tokens) >= 3
    /\ tokens[1].lo > 0
    /\ \E i \in 1..(Len(tokens) - 1) :
          tokens[i + 1].kind # "EOF" /\ tokens[i + 1].lo > tokens[i].hi

\* C2 as stated (span contiguity): lo <= hi for every token and the lo of
\* each token equals the hi of the token returned before it.
C2_Contiguity ==
    /\ \A i \in DOMAIN tokens : tokens[i].lo <= tokens[i].hi
    /\ \A i \in 1..(Len(tokens) - 1) : tokens[i + 1].lo = tokens[i].hi

RECURSIVE WsRunLen(_)
\* length of the maximal run of whitespace characters starting at position p
WsRunLen(p) == IF p < N /\ IsWs(p) THEN 1 + WsRunLen(p + 1) ELSE 0

\* C2 amended: lo <= hi for every token, and the lo of each token is the hi
\* of the token returned before it plus the length of the whitespace run
\* that starts there; the two are equal exactly when no whitespace follows
\* the earlier lexeme.
C2_ContiguityUpToWhitespace ==
    /\ \A i \in DOMAIN tokens : tokens[i].lo <= tokens[i].hi
    /\ \A i \in 1..(Len(tokens) - 1) :
          tokens[i + 1].lo = tokens[i].hi + WsRunLen(tokens[i].hi)

\* C2 witness: two consecutive tokens with whitespace between them, and two
\* with none
C2_Witness ==
    /\ \E i \in 1..(Len(tokens) - 1) :
          tokens[i + 1].kind # "EOF" /\ tokens[i + 1].lo > tokens[i].hi
    /\ \E i \in 1..(Len(tokens) - 1) :
          tokens[i + 1].kind # "EOF" /\ tokens[i + 1].lo = tokens[i].hi

\* C3 as stated (totality and progress): every call of next_token returns,
\* a call that returns a token other than EOF returns a non-empty span that
\* ends at the new position, beyond the position the call started at, and
\* EOF is eventually returned after at most N other tokens.
C3_Totality ==
    /\ (pc # "idle") ~> (pc = "idle")
    /\ <>EofReturned
    /\ [](\A i \in DOMAIN tokens :
             tokens[i].kind # "EOF" =>
                 /\ tokens[i].lo < tokens[i].hi
                 /\ tokens[i].hi <= pos)
    /\ [](Len(tokens) - EofCount <= N)

\* C4 as stated (no process-visible failure): no call of next_token aborts.
C4_NoPanic == pc # "panicked"

\* the token returned by the latest call
LastToken == tokens[Len(tokens)]

\* C5 (idempotent EOF): once EOF has been returned, the latest token is
\* EOF with span (N, N), no step changes pos or the cursor, and a step
\* that returns a token returns that same EOF token.
C5_IdempotentEof ==
    [][EofReturned =>
          /\ LastToken = Token("EOF", N, N)
          /\ pos' = pos
          /\ cursor' = cursor
          /\ \/ tokens' = tokens
             \/ tokens' = Append(tokens, Token("EOF", N, N))]_vars

\* C5 witness: a call made after EOF was returned has returned EOF again
C5_Witness ==
    /\ N >= 1
    /\ EofCount >= 2
    /\ pc = "idle"

\* the number of characters the cursor has consumed from the source
Consumed == N - Len(cursor.chars)

\* C6 as stated (spans are byte offsets that recover the lexeme): when a
\* call has returned, the byte range [lo, hi) of its token can be sliced
\* out of the source, ends at the byte offset the cursor has reached and
\* holds as many characters as the token consumed; an EOF span is the byte
\* length of the source.
C6_ByteSpans ==
    (pc = "idle" /\ tokens # <<>>) =>
        IF LastToken.kind = "EOF"
        THEN LastToken.lo = ByteLen(src) /\ LastToken.hi = ByteLen(src)
        ELSE /\ SliceOk(src, LastToken.lo, LastToken.hi)
             /\ LastToken.hi = ByteOffset(src, Consumed + 1)
             /\ Len(StrSlice(src, LastToken.lo, LastToken.hi))
                    = LastToken.hi - LastToken.lo

\* the reserved words and their kinds
ReservedWords ==
    {[word |-> <<"a", "r", "r", "a", "y">>, kind |-> "ARRAY"],
     [word |-> <<"i", "f">>, kind |-> "IF"],
     [word |-> <<"t", "h", "e", "n">>, kind |-> "THEN"],
     [word |-> <<"e", "l", "s", "e">>, kind |-> "ELSE"],
     [word |-> <<"w", "h", "i", "l", "e">>, kind |-> "WHILE"],
     [word |-> <<"f", "o", "r">>, kind |-> "FOR"],
     [word |-> <<"t", "o">>, kind |-> "TO"],
     [word |-> <<"d", "o">>, kind |-> "DO"],
     [word |-> <<"l", "e", "t">>, kind |-> "LET"],
     [word |-> <<"i", "n">>, kind |-> "IN"],
     [word |-> <<"e", "n", "d">>, kind |-> "END"],
     [word |-> <<"o", "f">>, kind |-> "OF"],
     [word |-> <<"b", "r", "e", "a", "k">>, kind |-> "BREAK"],
     [word |-> <<"f", "u", "n", "c", "t", "i", "o", "n">>,
      kind |-> "FUNCTION"],
     [word |-> <<"v", "a", "r">>, kind |-> "VAR"],
     [word |-> <<"t", "y", "p", "e">>, kind |-> "TYPE"],
     [word |-> <<"n", "i", "l">>, kind |-> "NIL"]}

IsReservedWord(s) == \E r \in ReservedWords : r.word = s

\* the kind the claim gives a letter-led lexeme
ExpectedKind(s) ==
    IF IsReservedWord(s)
    THEN (CHOOSE r \in ReservedWords : r.word = s).kind
    ELSE "ID"

\* the source is one lexeme: an ASCII letter, then ASCII letters and digits
IsSingleLexeme(s) ==
    /\ Len(s) >= 1
    /\ s[1] \in Letters
    /\ \A i \in DOMAIN s : s[i] \in Letters \cup Digits

\* C7 (keyword exactness): when the source is a single letter-led lexeme,
\* the first token covers all of it and its kind is the keyword kind if the
\* lexeme is a reserved word, compared case-sensitively, and ID otherwise.
C7_KeywordExactness ==
    (IsSingleLexeme(src) /\ tokens # <<>>) =>
        tokens[1] = Token(ExpectedKind(src), 0, N)

\* C7 witness: a reserved word scanned alone has been returned as a token
C7_Witness ==
    /\ IsReservedWord(src)
    /\ N >= 4
    /\ tokens # <<>>
    /\ tokens[1].kind # "ID"

\* the character after position p, or the empty string at the end of input
CharAfter(p) == IF p + 1 < N THEN CharAt(p + 1) ELSE ""

\* C8 (operator disambiguation): a token that starts at ':', '<' or '>' has
\* the kind and the length decided by the one character after it.
C8_OperatorLookahead ==
    \A i \in DOMAIN tokens :
        LET lo == tokens[i].lo
            two == Token("", lo, lo + 2)
            one == Token("", lo, lo + 1)
        IN  tokens[i].kind # "EOF" =>
            /\ CharAt(lo) = ":" =>
                  tokens[i] = IF CharAfter(lo) = "="
                              THEN [two EXCEPT !.kind = "ASSIGN"]
                              ELSE [one EXCEPT !.kind = "COLON"]
            /\ CharAt(lo) = "<" =>
                  tokens[i] = IF CharAfter(lo) = ">"
                              THEN [two EXCEPT !.kind = "NEQ"]
                              ELSE IF CharAfter(lo) = "="
                              THEN [two EXCEPT !.kind = "LE"]
                              ELSE [one EXCEPT !.kind = "LT"]
            /\ CharAt(lo) = ">" =>
                  tokens[i] = IF CharAfter(lo) = "="
                              THEN [two EXCEPT !.kind = "GE"]
                              ELSE [one EXCEPT !.kind = "GT"]

\* C8 witness: a two-character operator has been returned, and then a '<'
\* that is the last character of the input
C8_Witness ==
    /\ \E i \in DOMAIN tokens : tokens[i].kind \in {"NEQ", "LE"}
    /\ \E i \in DOMAIN tokens :
          tokens[i].kind = "LT" /\ tokens[i].hi = N

\* the characters of token i
Lexeme(i) == SubSeq(src, tokens[i].lo + 1, tokens[i].hi)

\* the number of '.' characters in the text s
DotCount(s) == Cardinality({k \in DOMAIN s : s[k] = "."})

IdentifierKinds == {r.kind : r \in ReservedWords} \cup {"ID"}

RECURSIVE CommentEnd(_, _)
\* the position at which a comment ends when its text is scanned from
\* position p at depth d: the depth rises at each "/*", falls at each "*/",
\* and the comment ends after the "*/" that brings it to 0, or at N
CommentEnd(p, d) ==
    IF p >= N THEN N
    ELSE IF CharAt(p) = "*" /\ CharAfter(p) = "/"
    THEN (IF d = 1 THEN p + 2 ELSE CommentEnd(p + 2, d - 1))
    ELSE IF CharAt(p) = "/" /\ CharAfter(p) = "*"
    THEN CommentEnd(p + 2, d + 1)
    ELSE CommentEnd(p + 1, d)

\* C10 as stated (nested comment depth): a COMMENT token begins with "/*"
\* and ends where the depth, 1 after that opener and counted over the text
\* that follows it, returns to 0, or at the end of the input.
C10_NestedCommentDepth ==
    \A i \in DOMAIN tokens :
        tokens[i].kind = "COMMENT" =>
            /\ CharAt(tokens[i].lo) = "/"
            /\ CharAfter(tokens[i].lo) = "*"
            /\ tokens[i].hi = CommentEnd(tokens[i].lo + 2, 1)

RECURSIVE StringEnd(_)
\* the position after the first closing quote found from position p on
\* that is not the second character of an escape pair, or -1 if the input
\* holds none: a backslash followed by a backslash or a quote is skipped
\* with the character after it, any other character is skipped alone
StringEnd(p) ==
    IF p >= N THEN -1
    ELSE IF CharAt(p) = "\"" THEN p + 1
    ELSE IF CharAt(p) = "\\" /\ CharAfter(p) \in {"\\", "\""}
    THEN StringEnd(p + 2)
    ELSE StringEnd(p + 1)

\* token i starts at a quote character
StartsAtQuote(i) == tokens[i].kind # "EOF" /\ CharAt(tokens[i].lo) = "\""

\* C11 (string escape pass-through): a token that starts at '"' is STRING
\* exactly when a closing quote that is not escaped follows, and then its
\* span runs from the opening quote through the first such quote.
C11_StringEscapes ==
    \A i \in DOMAIN tokens :
        StartsAtQuote(i) =>
            /\ tokens[i].kind = "STRING" <=> StringEnd(tokens[i].lo + 1) # -1
            /\ tokens[i].kind = "STRING" =>
                  tokens[i].hi = StringEnd(tokens[i].lo + 1)

\* C11 witness: a STRING token that holds an escaped quote before its
\* closing quote
C11_Witness ==
    \E i \in DOMAIN tokens :
        /\ tokens[i].kind = "STRING"
        /\ \E p \in (tokens[i].lo + 1)..(tokens[i].hi - 3) :
              CharAt(p) = "\\" /\ CharAt(p + 1) = "\""

\* C12 (unterminated string recovery): a token that starts at '"' with no
\* unescaped closing quote after it is UNKNOWN from the opening quote to
\* the end of input, and the token returned after it is EOF.
C12_UnterminatedString ==
    \A i \in DOMAIN tokens :
        (StartsAtQuote(i) /\ StringEnd(tokens[i].lo + 1) = -1) =>
            /\ tokens[i] = Token("UNKNOWN", tokens[i].lo, N)
            /\ i < Len(tokens) => tokens[i + 1] = Token("EOF", N, N)

\* C12 witness: an unterminated string that ends in an escape pair has been
\* returned, and EOF after it
C12_Witness ==
    /\ N >= 3
    /\ CharAt(N - 2) = "\\"
    /\ CharAt(N - 1) = "\""
    /\ Len(tokens) >= 2
    /\ tokens[Len(tokens) - 1].kind = "UNKNOWN"
    /\ StartsAtQuote(Len(tokens) - 1)
    /\ LastToken.kind = "EOF"

RECURSIVE RunToEof(_)
\* the reader r driven by calls of next_token until a call returns EOF or
\* aborts
RunToEof(r) ==
    IF r.pc = "panicked" \/ (r.pc = "idle" /\ EofCountOf(r.tokens) >= 1)
    THEN r
    ELSE RunToEof(StepOf(r))

\* the tokens a reader constructed over the text s and driven alone returns
Scan(s) == RunToEof(NewReader(s)).tokens

\* the source from position p on
Suffix(p) == SubSeq(src, p + 1, N)

\* the characters some arm of the match of next_token recognises
RecognisedChars ==
    WhitespaceChars \cup SingleChars \cup {":", "<", ">", "/", "\""}
        \cup Digits \cup Letters

\* token i starts at a character no rule recognises
StartsAtUnrecognised(i) ==
    tokens[i].kind # "EOF" /\ CharAt(tokens[i].lo) \notin RecognisedChars

\* C13 as stated (unrecognized character): a token that starts at a
\* character no rule recognises is UNKNOWN over exactly that character, the
\* call after it does not abort, and the token that call returns is the one
\* a reader constructed over the rest of the source returns first: same
\* kind, same length, at the same place.
C13_UnknownCharacter ==
    \A i \in DOMAIN tokens :
        StartsAtUnrecognised(i) =>
            /\ tokens[i] = Token("UNKNOWN", tokens[i].lo, tokens[i].lo + 1)
            /\ i = Len(tokens) => pc # "panicked"
            /\ i < Len(tokens) =>
                  LET fresh == Scan(Suffix(tokens[i].hi))
                  IN  /\ fresh # <<>>
                      /\ tokens[i + 1] =
                            Token(fresh[1].kind,
                                  tokens[i].hi + fresh[1].lo,
                                  tokens[i].hi + fresh[1].hi)

\* the token sequence toks is what a reader driven alone over the text s
\* returns: token for token the tokens of Scan(s), followed by nothing but
\* further copies of its final EOF
ReturnedAlone(toks, s) ==
    LET alone == Scan(s)
    IN  \A i \in DOMAIN toks :
            IF i <= Len(alone) THEN toks[i] = alone[i]
            ELSE /\ alone # <<>>
                 /\ alone[Len(alone)].kind = "EOF"
                 /\ toks[i] = alone[Len(alone)]

\* C14 (independent instances): with two readers over the same source and
\* their steps interleaved in any order, each has returned the tokens a
\* single reader driven alone returns, a reader aborts only where the one
\* driven alone aborts, and both still read the same source.
C14_IndependentInstances ==
    /\ other.src = src
    /\ ReturnedAlone(tokens, src)
    /\ ReturnedAlone(other.tokens, src)
    /\ pc = "panicked" => Len(tokens) = Len(Scan(src))
    /\ other.pc = "panicked" => Len(other.tokens) = Len(Scan(src))

\* C14 witness: each reader has returned a token and is in the middle of a
\* further call, the two at different places of the source
C14_Witness ==
    /\ tokens # <<>>
    /\ other.tokens # <<>>
    /\ pc \notin {"idle", "panicked"}
    /\ other.pc \notin {"idle", "panicked"}
    /\ Len(tokens) # Len(other.tokens)
    /\ pos # other.pos

\* the kind and the length of the token t
KindAndLength(t) == <<t.kind, t.hi - t.lo>>

\* C15 as stated (statelessness across tokens): at every token boundary
\* reached, the calls made after it return tokens of the same kinds and
\* lengths as a reader constructed over the rest of the source returns, and
\* abort only where that reader aborts.
C15_Stateless ==
    \A i \in DOMAIN tokens :
        tokens[i].kind # "EOF" =>
            LET p == tokens[i].hi
                fresh == RunToEof(NewReader(Suffix(p)))
            IN  /\ \A j \in (i + 1)..Len(tokens) :
                      IF j - i <= Len(fresh.tokens)
                      THEN KindAndLength(tokens[j])
                               = KindAndLength(fresh.tokens[j - i])
                      ELSE /\ tokens[j].kind = "EOF"
                           /\ fresh.pc # "panicked"
                /\ pc = "panicked" =>
                      /\ fresh.pc = "panicked"
                      /\ Len(fresh.tokens) = Len(tokens) - i

\* C16 (unterminated comment recovery): while cook_comment runs the level
\* is positive and its next step consumes input or ends the call; a step
\* taken with the input exhausted returns COMMENT from the opening '/' to
\* the end of input; and the token returned after a COMMENT that ends at
\* the end of input is EOF.
C16_UnterminatedComment ==
    /\ [](pc = "cook_comment" =>
             /\ comment_level > 0
             /\ \/ cook_comment(Self).pc = "idle"
                \/ Len(cook_comment(Self).cursor.chars) < Len(cursor.chars))
    /\ [][(pc = "cook_comment" /\ is_eof(cursor)) =>
             /\ CharAt(start) = "/"
             /\ pc' = "idle"
             /\ tokens' = Append(tokens, Token("COMMENT", start, N))]_vars
    /\ [](\A i \in 1..(Len(tokens) - 1) :
             (tokens[i].kind = "COMMENT" /\ tokens[i].hi = N) =>
                 tokens[i + 1] = Token("EOF", N, N))

\* C16 witness: a comment left open at a positive level has been returned
\* as COMMENT up to the end of input, and EOF after it
C16_Witness ==
    /\ Len(tokens) >= 2
    /\ LastToken.kind = "EOF"
    /\ tokens[Len(tokens) - 1].kind = "COMMENT"
    /\ tokens[Len(tokens) - 1].hi = N
    /\ comment_level > 0
    /\ N >= 4

\* every character of the source is whitespace
AllWhitespace == \A p \in 0..(N - 1) : IsWs(p)

\* C17 (whitespace never escapes): no token has the kind WHITESPACE, no
\* token other than EOF starts at a whitespace character, a source of
\* whitespace only yields EOF (N, N) as its first token, and a token that
\* starts at "/*" is returned with the kind COMMENT.
C17_WhitespaceNeverEscapes ==
    /\ \A i \in DOMAIN tokens :
          /\ tokens[i].kind # "WHITESPACE"
          /\ tokens[i].kind # "EOF" =>
                /\ ~IsWs(tokens[i].lo)
                /\ (CharAt(tokens[i].lo) = "/"
                        /\ CharAfter(tokens[i].lo) = "*") =>
                      tokens[i].kind = "COMMENT"
    /\ (AllWhitespace /\ tokens # <<>>) => tokens[1] = Token("EOF", N, N)

\* C17 witness: a source of several whitespace characters has returned EOF
C17_Witness ==
    /\ N >= 2
    /\ AllWhitespace
    /\ tokens # <<>>

\* C18 (position bookkeeping): at every return from next_token and at
\* every restart of its loop the consumed-count of the cursor is 0 and pos
\* is the number of characters consumed from the source; the span of the
\* token a call has returned runs from start to the characters consumed.
C18_PositionBookkeeping ==
    /\ pc \in {"idle", "next_token"} =>
          /\ cursor.len_advanced = 0
          /\ pos = Consumed
          /\ pos + Len(cursor.chars) = N
    /\ (pc = "idle" /\ tokens # <<>>) =>
          /\ LastToken.lo = start
          /\ LastToken.hi = Consumed
          /\ LastToken.hi = pos

\* C18 witness: the loop restarts after a whitespace run that followed a
\* token
C18_Witness ==
    /\ pc = "next_token"
    /\ tokens # <<>>
    /\ pos > LastToken.hi

\* the kind the claim gives each single-character punctuation or operator
PinnedKind(ch) ==
    CASE ch = "{" -> "RCURLY"
      [] ch = "}" -> "LCURLY"
      [] ch = "," -> "COMMA"
      [] ch = ";" -> "SEMICOLON"
      [] ch = "(" -> "LPAREN"
      [] ch = ")" -> "RPAREN"
      [] ch = "[" -> "LBRACK"
      [] ch = "]" -> "RBRACK"
      [] ch = "." -> "DOT"
      [] ch = "+" -> "PLUS"
      [] ch = "-" -> "MINUS"
      [] ch = "*" -> "TIMES"
      [] ch = "%" -> "PERCENT"
      [] ch = "=" -> "EQ"
      [] ch = "&" -> "AND"
      [] ch = "|" -> "OR"

CandidateLexemes == {s \in Samples : IsSingleLexeme(s)}

\* the candidate lexemes the match of cook_identifier does not give ID
KeywordLexemes == {s \in CandidateLexemes : keyword_kind(s) # "ID"}

\* the identifier scanner has left its loop and sliced a text: its next step
\* returns the token
IdentifierReturns ==
    /\ pc = "cook_identifier"
    /\ cook_identifier(Self).pc = "idle"

\* the text the identifier scanner has sliced out of the source
SlicedText == StrSlice(src, start, start + cursor.len_advanced)

\* the kind of the token the identifier scanner is about to return
ReturnedKind ==
    LET toks == cook_identifier(Self).tokens IN toks[Len(toks)].kind

\* C20 as stated (keyword table size): the identifier scanner returns a
\* keyword kind exactly for the texts its keyword match knows, and exactly
\* sixteen distinct lexemes are given a keyword kind.
C20_SixteenKeywords ==
    IdentifierReturns =>
        /\ ReturnedKind # "ID" <=> SlicedText \in KeywordLexemes
        /\ Cardinality(KeywordLexemes) = 16

\* C20 amended: the identifier scanner returns a keyword kind exactly when
\* the text it has sliced is one of the seventeen reserved words, the kind
\* of that word, and ID for every other text; exactly seventeen distinct
\* lexemes are given a keyword kind, each a kind of its own.
C20_SeventeenKeywords ==
    IdentifierReturns =>
        /\ ReturnedKind = ExpectedKind(SlicedText)
        /\ ReturnedKind # "ID" <=> SlicedText \in KeywordLexemes
        /\ Cardinality(KeywordLexemes) = 17
        /\ Cardinality({keyword_kind(s) : s \in KeywordLexemes}) = 17

\* C20 witness: the identifier scanner is about to return NIL for the
\* seventeenth reserved word, nil
C20_Witness ==
    /\ IdentifierReturns
    /\ SlicedText = <<"n", "i", "l">>
    /\ ReturnedKind = "NIL"

====
